---- MODULE Spec2Model ----
(***************************************************************************)
(* Model of semsb_wati/api/pdf_parser.py: the SEM105 "Outstanding Sales    *)
(* Order Listing" text parser.  Text is a sequence of one-character        *)
(* strings; the regular expressions of the source are operators over such  *)
(* sequences.                                                              *)
(***************************************************************************)
EXTENDS Integers, Sequences, FiniteSets, TLC

VARIABLES
    full_text,     \* parse: the concatenated page text
    pc,            \* position inside parse / _parse_items / the layout scans
    so_numbers,    \* ParsedPDF.so_numbers
    customer_raw,  \* ParsedPDF.customer_raw
    parse_errors,  \* ParsedPDF.parse_errors
    items,         \* ParsedPDF.items
    delivery_date, \* ParsedPDF.delivery_date
    location_code, \* ParsedPDF.location_code
    lines,         \* the line list the running scan walks
    i,             \* index of the next line of the running scan (1-based)
    current_so,    \* current_so of the running scan
    items_a,       \* the list _parse_layout_a builds
    items_b,       \* the list _parse_layout_b builds
    raw,           \* the raw item-code token
    arg,           \* argument of the latest _clean_item_code call
    cleaned,       \* its return value
    calls,         \* number of _clean_item_code applications so far
    cpc,           \* position inside create_sales_orders and its caller
    catalog,       \* the names of the Item records of the site
    customers,     \* the names of the Customer records of the site
    auto_submit,   \* settings.auto_submit_sales_orders
    so_groups,     \* so_groups, in the insertion order of the dict
    g,             \* index of the next group of the creation loop (1-based)
    sales_orders,  \* the Sales Order documents inserted and committed
    production_plans, \* the Sales Orders a Production Plan was inserted for
    thrown,        \* the error frappe.throw raised: none, or one
    log_status     \* status of the Wati Webhook Log

vars == <<full_text, pc, so_numbers, customer_raw, parse_errors, items,
          delivery_date, location_code, lines, i, current_so, items_a,
          items_b, raw, arg, cleaned, calls, cpc, catalog, customers,
          auto_submit, so_groups, g, sales_orders, production_plans, thrown,
          log_status>>

parserVars == <<full_text, pc, so_numbers, customer_raw, parse_errors, items,
                delivery_date, location_code, lines, i, current_so, items_a,
                items_b>>

repairVars == <<raw, arg, cleaned, calls>>

creatorVars == <<cpc, catalog, customers, auto_submit, so_groups, g,
                 sales_orders, production_plans, thrown, log_status>>

----------------------------------------------------------------------------
(* Characters and strings *)

NL == "\n"
SP == " "

DigitChars == <<"0", "1", "2", "3", "4", "5", "6", "7", "8", "9">>
LowerChars == <<"a", "b", "c", "d", "e", "f", "g", "h", "i", "j", "k", "l", "m",
                "n", "o", "p", "q", "r", "s", "t", "u", "v", "w", "x", "y", "z">>
UpperChars == <<"A", "B", "C", "D", "E", "F", "G", "H", "I", "J", "K", "L", "M",
                "N", "O", "P", "Q", "R", "S", "T", "U", "V", "W", "X", "Y", "Z">>

Range(s) == {s[k] : k \in DOMAIN s}

DigitSet == Range(DigitChars)
LowerSet == Range(LowerChars)
UpperSet == Range(UpperChars)

IsDigit(c) == c \in DigitSet
\* \w of the re module, on the characters of the model
IsWord(c) == c \in DigitSet \cup LowerSet \cup UpperSet \cup {"_"}
\* \s of the re module, and the characters str.strip / str.split drop
IsSpace(c) == c \in {SP, "\t", NL}

Min(S) == CHOOSE x \in S : \A y \in S : x <= y
Max(S) == CHOOSE x \in S : \A y \in S : x >= y

\* s[from:] with a 1-based start
Drop(s, from) == SubSeq(s, from, Len(s))
\* s[:n]
Take(s, n) == SubSeq(s, 1, IF n < Len(s) THEN n ELSE Len(s))

\* str.upper, character by character
UpperChar(c) ==
    IF c \in LowerSet
    THEN UpperChars[CHOOSE k \in DOMAIN LowerChars : LowerChars[k] = c]
    ELSE c
StrUpper(s) == [k \in DOMAIN s |-> UpperChar(s[k])]

\* str.find(ch): the 1-based index of the first occurrence, 0 for Python's -1
Find(s, c) ==
    LET hits == {k \in DOMAIN s : s[k] = c}
    IN  IF hits = {} THEN 0 ELSE Min(hits)

\* str.startswith
StartsWith(s, p) == Len(p) <= Len(s) /\ SubSeq(s, 1, Len(p)) = p

\* sorted(a) == sorted(b): the same characters with the same multiplicities
SameSorted(a, b) ==
    /\ Len(a) = Len(b)
    /\ \A c \in Range(a) \cup Range(b) :
          Cardinality({k \in DOMAIN a : a[k] = c})
              = Cardinality({k \in DOMAIN b : b[k] = c})

----------------------------------------------------------------------------
(* KNOWN_SUFFIXES and _clean_item_code *)

SuffixLiterals ==
    << <<"B", "A", "G">>, <<"P", "K", "T">>, <<"B", "O", "X">>,
       <<"C", "T", "N">>, <<"P", "C", "S">>,
       <<"S", "E", "T">>, <<"T", "I", "N">>, <<"B", "T", "L">>,
       <<"R", "O", "L", "L">>, <<"P", "A", "C">>,
       <<"P", "A", "K">>, <<"U", "N", "I", "T">>, <<"K", "G">>, <<"G">> >>

\* sorted(..., key=len, reverse=True): a stable sort, longest first
RECURSIVE SortedByLenDesc(_, _)
SortedByLenDesc(list, n) ==
    IF n = 0 THEN <<>>
    ELSE SelectSeq(list, LAMBDA s : Len(s) = n) \o SortedByLenDesc(list, n - 1)

KNOWN_SUFFIXES ==
    SortedByLenDesc(SuffixLiterals,
                    Max({Len(SuffixLiterals[k]) : k \in DOMAIN SuffixLiterals}))

\* `for suffix in KNOWN_SUFFIXES: if ...: return`: the first index of the
\* list among hits, those whose suffix passes the test; 0 when the loop
\* falls through
FirstSuffix(hits) == IF hits = {} THEN 0 ELSE Min(hits)

\* the inner loop of the subsequence strategy: every character of suffix,
\* from position k on, is found in order in remaining
RECURSIVE FoundAll(_, _, _)
FoundAll(suffix, k, remaining) ==
    IF k > Len(suffix) THEN TRUE
    ELSE LET idx == Find(remaining, suffix[k])
         IN  IF idx = 0 THEN FALSE
             ELSE FoundAll(suffix, k + 1, Drop(remaining, idx + 1))

ExactPrefixMatch(after_slash, suffix) == StartsWith(after_slash, suffix)

\* the slice [:n] forgotten: the whole remainder is compared
AnagramMatch_WholeRemainder(after_slash, suffix) ==
    SameSorted(after_slash, suffix)

AnagramMatch(after_slash, suffix) ==
    LET candidate == Take(after_slash, Len(suffix))
    IN  Len(candidate) = Len(suffix) /\ SameSorted(candidate, suffix)

MinSubseqLen == 2

SubsequenceMatch(after_slash, suffix) ==
    FoundAll(suffix, 1, after_slash) /\ Len(suffix) >= MinSubseqLen

MaxFallbackLen == 5

\* the {1,5} bound forgotten: [A-Z0-9]+
FallbackLen_Unbounded(after_slash) ==
    Max({n \in 0..Len(after_slash) :
            \A k \in 1..n : after_slash[k] \in UpperSet \cup DigitSet})

\* re.match(r"[A-Z0-9]{1,5}", after_slash): the length of the match, 0 for None
FallbackLen(after_slash) ==
    LET ok(k) == after_slash[k] \in UpperSet \cup DigitSet
        run == {n \in 0..Len(after_slash) : \A k \in 1..n : ok(k)}
        n   == Max(run)
    IN  IF n > MaxFallbackLen THEN MaxFallbackLen ELSE n

_clean_item_code(tok) ==
    LET slash_idx == Find(tok, "/")
    IN  IF slash_idx = 0 THEN tok
        ELSE
        LET prefix == SubSeq(tok, 1, slash_idx)
            after_slash == StrUpper(Drop(tok, slash_idx + 1))
            exact == FirstSuffix({k \in DOMAIN KNOWN_SUFFIXES :
                         ExactPrefixMatch(after_slash, KNOWN_SUFFIXES[k])})
            anagram == FirstSuffix({k \in DOMAIN KNOWN_SUFFIXES :
                         AnagramMatch(after_slash, KNOWN_SUFFIXES[k])})
            subseq == FirstSuffix({k \in DOMAIN KNOWN_SUFFIXES :
                         SubsequenceMatch(after_slash, KNOWN_SUFFIXES[k])})
            m == FallbackLen(after_slash)
        IN  IF exact # 0 THEN prefix \o KNOWN_SUFFIXES[exact]
            ELSE IF anagram # 0 THEN prefix \o KNOWN_SUFFIXES[anagram]
            ELSE IF subseq # 0 THEN prefix \o KNOWN_SUFFIXES[subseq]
            ELSE IF m > 0 THEN prefix \o Take(after_slash, m)
            ELSE tok

----------------------------------------------------------------------------
(* str methods used by the parser *)

\* str.splitlines on the newline of the model
RECURSIVE SplitLines(_)
SplitLines(s) ==
    IF s = <<>> THEN <<>>
    ELSE LET n == Find(s, NL)
         IN  IF n = 0 THEN <<s>>
             ELSE <<SubSeq(s, 1, n - 1)>> \o SplitLines(Drop(s, n + 1))

\* str.strip
Strip(s) ==
    LET keep == {k \in DOMAIN s : ~IsSpace(s[k])}
    IN  IF keep = {} THEN <<>> ELSE SubSeq(s, Min(keep), Max(keep))

\* str.split(): the maximal runs of non-whitespace characters
RECURSIVE SplitFrom(_, _)
SplitFrom(s, from) ==
    LET starts == {k \in from..Len(s) : ~IsSpace(s[k])}
    IN  IF starts = {} THEN <<>>
        ELSE LET b == Min(starts)
                 e == Min({k \in b..Len(s) + 1 : k > Len(s) \/ IsSpace(s[k])})
             IN  <<SubSeq(s, b, e - 1)>> \o SplitFrom(s, e)
Split(s) == SplitFrom(s, 1)

\* sep.join(list)
RECURSIVE Join(_, _)
Join(list, sep) ==
    IF list = <<>> THEN <<>>
    ELSE IF Len(list) = 1 THEN list[1]
    ELSE list[1] \o sep \o Join(Tail(list), sep)

\* str.replace(c, "")
RemoveChar(s, c) == SelectSeq(s, LAMBDA x : x # c)

\* int(s) of a run of decimal digits
DigitVal(c) == (CHOOSE k \in DOMAIN DigitChars : DigitChars[k] = c) - 1
RECURSIVE DigitsToNat(_)
DigitsToNat(s) ==
    IF s = <<>> THEN 0
    ELSE 10 * DigitsToNat(SubSeq(s, 1, Len(s) - 1)) + DigitVal(s[Len(s)])

AllDigits(s) == s # <<>> /\ \A k \in DOMAIN s : IsDigit(s[k])

----------------------------------------------------------------------------
(* The regular expressions *)

\* \b at position p: between s[p-1] and s[p]
AtWordBoundary(s, p) ==
    LET before == p > 1 /\ IsWord(s[p - 1])
        after  == p <= Len(s) /\ IsWord(s[p])
    IN  before # after

\* the literal lit occurs in s at position p
HasAt(s, p, lit) ==
    p + Len(lit) - 1 <= Len(s) /\ SubSeq(s, p, p + Len(lit) - 1) = lit

\* the position after the run of digits that starts at p (p itself if none)
DigitRunEnd(s, p) ==
    Min({q \in p..Len(s) + 1 : q > Len(s) \/ ~IsDigit(s[q])})

SoPrefix == <<"S", "O", "-">>

\* the word boundaries forgotten: SO-\d+
SoEndAt_NoBoundary(s, p) ==
    IF HasAt(s, p, SoPrefix)
    THEN LET e == DigitRunEnd(s, p + Len(SoPrefix))
         IN  IF e > p + Len(SoPrefix) THEN e ELSE 0
    ELSE 0

\* \bSO-\d+\b anchored at p: the position after the match, 0 for no match
SoEndAt(s, p) ==
    IF AtWordBoundary(s, p) /\ HasAt(s, p, SoPrefix)
    THEN LET e == DigitRunEnd(s, p + Len(SoPrefix))
         IN  IF e > p + Len(SoPrefix) /\ AtWordBoundary(s, e) THEN e ELSE 0
    ELSE 0

\* re.search(r"\bSO-\d+\b", s) from position from on: the start, 0 for None
SoSearch(s, from) ==
    LET hits == {p \in from..Len(s) : SoEndAt(s, p) # 0}
    IN  IF hits = {} THEN 0 ELSE Min(hits)

\* re.findall(r"\bSO-\d+\b", s): the non-overlapping matches, left to right
RECURSIVE FindAllSoFrom(_, _)
FindAllSoFrom(s, from) ==
    LET p == SoSearch(s, from)
    IN  IF p = 0 THEN <<>>
        ELSE <<SubSeq(s, p, SoEndAt(s, p) - 1)>> \o FindAllSoFrom(s, SoEndAt(s, p))
FindAllSo(s) == FindAllSoFrom(s, 1)

\* re.match(r"^(SO-\d+)\s+", line): group(1), <<>> for None
HeaderSo(line) ==
    LET e == DigitRunEnd(line, Len(SoPrefix) + 1)
    IN  IF /\ HasAt(line, 1, SoPrefix)
           /\ e > Len(SoPrefix) + 1
           /\ e <= Len(line)
           /\ IsSpace(line[e])
        THEN SubSeq(line, 1, e - 1)
        ELSE <<>>

\* RE_SEQ_START.match(line): ^\d+\s+
SeqStart(line) ==
    LET e == DigitRunEnd(line, 1)
    IN  e > 1 /\ e <= Len(line) /\ IsSpace(line[e])

LocPrefix == <<"A", "V", "I", "N", "A">>
LocMinDigits == 2
LocMaxDigits == 3

\* \bAVINA\d{2,3}\b anchored at p: the position after the match, 0 for none
LocEndAt(s, p) ==
    IF AtWordBoundary(s, p) /\ HasAt(s, p, LocPrefix)
    THEN LET e == DigitRunEnd(s, p + Len(LocPrefix))
             n == e - (p + Len(LocPrefix))
         IN  IF n >= LocMinDigits /\ n <= LocMaxDigits /\ AtWordBoundary(s, e)
             THEN e ELSE 0
    ELSE 0

\* RE_LOCATION.search(s): the start of the first match, 0 for None
LocSearch(s) ==
    LET hits == {p \in 1..Len(s) : LocEndAt(s, p) # 0}
    IN  IF hits = {} THEN 0 ELSE Min(hits)

\* \b(\d{1,2}/\d{1,2}/\d{2,4})\b anchored at p: the position after the
\* match, 0 for none
DateEndAt(s, p) ==
    LET ends == {e \in p..Len(s) + 1 :
                   \E a \in 1..2, b \in 1..2, c \in 2..4 :
                      /\ e = p + a + 1 + b + 1 + c
                      /\ e <= Len(s) + 1
                      /\ \A k \in p..(p + a - 1) : IsDigit(s[k])
                      /\ s[p + a] = "/"
                      /\ \A k \in (p + a + 1)..(p + a + b) : IsDigit(s[k])
                      /\ s[p + a + b + 1] = "/"
                      /\ \A k \in (p + a + b + 2)..(e - 1) : IsDigit(s[k])
                      /\ AtWordBoundary(s, e)}
    IN  IF AtWordBoundary(s, p) /\ ends # {} THEN Max(ends) ELSE 0

\* RE_DATE.search(s): the start of the first match, 0 for None
DateSearch(s) ==
    LET hits == {p \in 1..Len(s) : DateEndAt(s, p) # 0}
    IN  IF hits = {} THEN 0 ELSE Min(hits)

\* RE_DATE.search(s).group(1)
DateGroup(s) == SubSeq(s, DateSearch(s), DateEndAt(s, DateSearch(s)) - 1)

\* RE_DATE.fullmatch(tok)
DateFullMatch(tok) == tok # <<>> /\ DateEndAt(tok, 1) = Len(tok) + 1


----------------------------------------------------------------------------
(* float(p.replace(",", "")) and _parse_date *)

SignChars == {"+", "-"}

\* the digits and the point of a float literal, its sign dropped
FloatBody(t) == IF t # <<>> /\ t[1] \in SignChars THEN Tail(t) ELSE t

\* float(t) does not raise ValueError: an optional sign, then digits with at
\* most one decimal point and at least one digit (exponents, underscores,
\* inf and nan are spellings outside the characters of the modelled texts)
FloatOk(t) ==
    LET body == FloatBody(t)
    IN  /\ \E k \in DOMAIN body : IsDigit(body[k])
        /\ \A k \in DOMAIN body : IsDigit(body[k]) \/ body[k] = "."
        /\ Cardinality({k \in DOMAIN body : body[k] = "."}) <= 1

\* float(t) as mant / 10^frac: the value is 0 iff mant = 0 and its sign is
\* the sign of mant
FloatVal(t) ==
    LET body == FloatBody(t)
        dot  == Find(body, ".")
        mag  == DigitsToNat(RemoveChar(body, "."))
    IN  [mant |-> IF t[1] = "-" THEN 0 - mag ELSE mag,
         frac |-> IF dot = 0 THEN 0 ELSE Len(body) - dot]

ZeroQty == [mant |-> 0, frac |-> 0]

\* the quantity loop: the first token of toks that float() accepts, commas
\* removed; qty stays 0.0 when there is none
FirstFloat(toks) ==
    LET hits == {k \in DOMAIN toks : FloatOk(RemoveChar(toks[k], ","))}
    IN  IF hits = {} THEN ZeroQty
        ELSE FloatVal(RemoveChar(toks[Min(hits)], ","))

\* n in decimal, zero-padded to width digits
RECURSIVE NatToDigits(_, _)
NatToDigits(n, width) ==
    IF width = 0 THEN <<>>
    ELSE NatToDigits(n \div 10, width - 1) \o <<DigitChars[(n % 10) + 1]>>

IsLeap(y) == (y % 4 = 0 /\ y % 100 # 0) \/ y % 400 = 0

DaysIn(m, y) ==
    IF m = 2 THEN (IF IsLeap(y) THEN 29 ELSE 28)
    ELSE IF m \in {4, 6, 9, 11} THEN 30 ELSE 31

\* the century dateutil adds to a two-digit year (clock years 2000..2049,
\* two-digit years below the +50 pivot)
DateutilCentury == 2000

\* date_parser.parse(tok, dayfirst=True).strftime("%Y-%m-%d"), or tok when
\* the parse raises; tok is a match of RE_DATE
_parse_date(tok) ==
    LET s1 == Find(tok, "/")
        rest == Drop(tok, s1 + 1)
        s2 == Find(rest, "/")
        t1 == SubSeq(tok, 1, s1 - 1)
        t2 == SubSeq(rest, 1, s2 - 1)
        t3 == Drop(rest, s2 + 1)
        v1 == DigitsToNat(t1)
        v2 == DigitsToNat(t2)
        v3 == DigitsToNat(t3)
        century_specified == Len(t3) > 2
        \* _ymd.resolve_ymd with dayfirst=True, yearfirst=False
        ymd == IF v1 > 31
               THEN (IF v3 <= 12 THEN <<v1, v3, v2>> ELSE <<v1, v2, v3>>)
               ELSE IF v1 > 12 \/ v2 <= 12 THEN <<v3, v2, v1>>
               ELSE <<v3, v1, v2>>
        year == IF ymd[1] < 100 /\ ~century_specified
                THEN DateutilCentury + ymd[1] ELSE ymd[1]
        month == ymd[2]
        day == ymd[3]
        valid == /\ year >= 1 /\ year <= 9999
                 /\ month >= 1 /\ month <= 12
                 /\ day >= 1 /\ day <= DaysIn(month, year)
    IN  IF valid
        THEN NatToDigits(year, 4) \o <<"-">> \o NatToDigits(month, 2)
                 \o <<"-">> \o NatToDigits(day, 2)
        ELSE tok

----------------------------------------------------------------------------
(* The two record extractors.  Optional[ParsedLineItem] is a sequence of *)
(* zero (None) or one record.                                             *)

ParsedLineItem(seq, so, code, desc, loc, qty, date) ==
    [seq |-> seq, source_so_no |-> so, item_code |-> code,
     description |-> desc, location_code |-> loc, qty |-> qty,
     delivery_date |-> date, factory |-> <<>>]

MinPartsA == 5

\* the conversion forgotten: the raw date token is kept
LineDate_Raw(line) ==
    IF DateSearch(line) # 0 THEN DateGroup(line) ELSE <<>>

\* the delivery date both extractors take from a line
LineDate(line) ==
    IF DateSearch(line) # 0 THEN _parse_date(DateGroup(line)) ELSE <<>>

\* the quantity test forgotten: `if not item_code`
Discarded_CodeOnly(item_code, qty) == item_code = <<>>

\* the record is dropped: `if not item_code or qty == 0`
Discarded(item_code, qty) == item_code = <<>> \/ qty.mant = 0

\* the date filter forgotten: every token is kept
DescPartsA_Unfiltered(toks) == toks

\* desc_parts: the tokens kept for the description of a Layout-A line
DescPartsA(toks) == SelectSeq(toks, LAMBDA p : ~DateFullMatch(p))

_try_parse_single_line(line, so) ==
    IF ~SeqStart(line) THEN <<>>
    ELSE IF LocSearch(line) = 0 THEN <<>>
    ELSE
    LET parts == Split(line)
        loc_start == LocSearch(line)
        loc_code == SubSeq(line, loc_start, LocEndAt(line, loc_start) - 1)
        at_loc == {k \in DOMAIN parts : parts[k] = loc_code}
    IN  IF Len(parts) < MinPartsA THEN <<>>
        ELSE IF ~AllDigits(parts[1]) THEN <<>>
        ELSE IF at_loc = {} THEN <<>>
        ELSE
        LET seq == DigitsToNat(parts[1])
            item_code == _clean_item_code(parts[2])
            loc_idx == Min(at_loc)
            date == LineDate(line)
            qty == FirstFloat(SubSeq(parts, loc_idx + 1, Len(parts)))
            desc_parts == DescPartsA(SubSeq(parts, 3, loc_idx - 1))
            description == Strip(Join(desc_parts, <<SP>>))
        IN  IF Discarded(item_code, qty) THEN <<>>
            ELSE <<ParsedLineItem(seq, so, item_code, description,
                                  loc_code, qty, date)>>

MinPartsB == 2

\* description of a Layout-B pair: everything before the location code
DescriptionB(desc_line) ==
    Strip(Strip(SubSeq(desc_line, 1, LocSearch(desc_line) - 1)))

_try_parse_layout_b_pair(desc_line, seq_line, so) ==
    IF LocSearch(desc_line) = 0 THEN <<>>
    ELSE
    LET loc_start == LocSearch(desc_line)
        loc_end == LocEndAt(desc_line, loc_start)
        loc_code == SubSeq(desc_line, loc_start, loc_end - 1)
        after_loc == Strip(Drop(desc_line, loc_end))
        date == LineDate(desc_line)
        description == DescriptionB(desc_line)
        seq_parts == Split(seq_line)
    IN  IF Len(seq_parts) < MinPartsB THEN <<>>
        ELSE IF ~AllDigits(seq_parts[1]) THEN <<>>
        ELSE
        LET seq == DigitsToNat(seq_parts[1])
            item_code == _clean_item_code(seq_parts[2])
            qty1 == FirstFloat(Split(after_loc))
            qty == IF qty1.mant = 0
                   THEN FirstFloat(SubSeq(seq_parts, 3, Len(seq_parts)))
                   ELSE qty1
        IN  IF Discarded(item_code, qty) THEN <<>>
            ELSE <<ParsedLineItem(seq, so, item_code, description,
                                  loc_code, qty, date)>>


----------------------------------------------------------------------------
(* The texts the parser is run on *)

T_SO1 == <<"S", "O", "-", "1">>
T_SO2 == <<"S", "O", "-", "2">>
T_SO3 == <<"S", "O", "-", "3">>
T_AC == <<"A", "C">>
T_BD == <<"B", "D">>
T_X == <<"X">>
T_Z == <<"Z">>
T_F == <<"F">>
T_G == <<"G">>
T_LOC14 == <<"A", "V", "I", "N", "A", "1", "4">>
T_LOC15 == <<"A", "V", "I", "N", "A", "1", "5">>
T_ANAGRAM == <<"A", "/", "G", "A", "B">>
T_NOSLASH == <<"K", "1">>
T_CLEAN == <<"A", "/", "B", "A", "G">>
T_FUSED == <<"A", "/", "B", "A", "G", "X">>
T_DATE == <<"1", "/", "2", "/", "2", "6">>
T_Q4 == <<"4">>
T_QNEG == <<"-", "4">>
T_Q0 == <<"0">>
T_QCOMMA == <<"1", ",", "0", "0", "0">>
T_EMBEDDED == <<"R", "-", "1", "/", "2", "/", "2", "6">>
T_XSO1 == <<"X", "S", "O", "-", "1">>
T_SO2X == <<"S", "O", "-", "2", "X">>
T_1 == <<"1">>
T_2 == <<"2">>
T_3 == <<"3">>
T_5 == <<"5">>
T_6 == <<"6">>
T_7 == <<"7">>

\* one physical line: its tokens separated by single spaces
Line(toks) == Join(toks, <<SP>>)

L_HEADER1   == Line(<<T_SO1, T_AC>>)
L_SO_ALONE  == Line(<<T_SO2>>)
L_SO_MIDDLE == Line(<<T_X, T_SO3, T_Z>>)
L_A_DATED   == Line(<<T_1, T_ANAGRAM, T_F, T_LOC14, T_Q4, T_DATE>>)
L_A_NODATE  == Line(<<T_2, T_NOSLASH, T_F, T_LOC14, T_Q4>>)
L_A_NEG     == Line(<<T_3, T_CLEAN, T_F, T_LOC14, T_QNEG, T_DATE>>)
L_A_ZERO    == Line(<<T_Q4, T_CLEAN, T_F, T_LOC14, T_Q0, T_DATE>>)
L_A_DATE1ST == Line(<<T_5, T_CLEAN, T_DATE, T_F, T_LOC14, T_Q4>>)
L_A_NOQTY   == Line(<<T_6, T_CLEAN, T_F, T_G, T_LOC14>>)
L_A_EMBEDDED == Line(<<T_7, T_CLEAN, T_EMBEDDED, T_LOC14, T_Q4>>)
L_B_DATED   == Line(<<T_DATE, T_F, T_LOC15, T_Q4>>)
L_B_ZERO    == Line(<<T_F, T_LOC15, T_Q0>>)
L_B_SEQQTY  == Line(<<T_1, T_CLEAN, T_QCOMMA>>)
L_B_SEQ     == Line(<<T_1, T_FUSED>>)
L_HEADER2   == Line(<<T_SO2, T_BD>>)
L_B_SOMID   == Line(<<T_XSO1, T_SO3, T_SO2X, T_LOC15, T_Q4>>)

\* page.extract_text() or "": the text of one page
PageTexts ==
    { <<>>, L_HEADER1, L_SO_ALONE, L_SO_MIDDLE,
      L_A_DATED, L_A_NODATE, L_A_NEG, L_A_ZERO, L_A_DATE1ST, L_A_NOQTY, L_A_EMBEDDED,
      L_B_DATED, L_B_ZERO, L_B_SEQQTY, L_B_SEQ,
      L_HEADER2 \o <<NL>> \o L_A_DATED,
      L_HEADER1 \o <<NL>> \o L_B_ZERO,
      L_B_SOMID \o <<NL>> \o L_B_SEQ }

\* the number of pages of a document
MaxPages == 2

Documents == UNION {[1..n -> PageTexts] : n \in 0..MaxPages}

\* the characters raw item-code tokens are built from
TokChars == {"/", "B", "A", "G", "K", "a", "1", "-"}

\* the length of the free part of a raw item-code token
MaxTokLen == 4

\* text fused onto a token, long enough to pass the fallback's cut
FusedTails == {<<>>, <<"1", "1", "1", "1", "1">>, <<"-", "G">>}

RawTokens ==
    {body \o tail : body \in UNION {[1..n -> TokChars] : n \in 0..MaxTokLen},
                    tail \in FusedTails}

\* applications of _clean_item_code to its own result
MaxCalls == 2

----------------------------------------------------------------------------
(* parse: order numbers and customer name *)

\* the loop `if so_no not in result.so_numbers: append`
RECURSIVE Dedupe(_, _)
Dedupe(all_so, acc) ==
    IF all_so = <<>> THEN acc
    ELSE Dedupe(Tail(all_so),
                IF Head(all_so) \in Range(acc) THEN acc
                ELSE Append(acc, Head(all_so)))

\* the text after the first order number of a line, stripped
AfterSo(line) == Strip(Drop(line, SoEndAt(line, SoSearch(line, 1))))

\* `break` one level out: the loop stops at the first line holding an order
\* number, with or without text after it
RECURSIVE CustomerOf_FirstSoLine(_)
CustomerOf_FirstSoLine(ls) ==
    IF ls = <<>> THEN <<>>
    ELSE IF SoSearch(Head(ls), 1) # 0
         THEN AfterSo(Head(ls))
         ELSE CustomerOf_FirstSoLine(Tail(ls))

\* the customer loop: the first line holding an order number with text
\* after it gives the name; "" when the loop finds none
RECURSIVE CustomerOf(_)
CustomerOf(ls) ==
    IF ls = <<>> THEN <<>>
    ELSE IF SoSearch(Head(ls), 1) # 0 /\ AfterSo(Head(ls)) # <<>>
         THEN AfterSo(Head(ls))
         ELSE CustomerOf(Tail(ls))

\* the default forgotten: current_so = ""
FirstSoOrEmpty_NoDefault(sos) == <<>>

\* `so_numbers[0] if so_numbers else ""`
FirstSoOrEmpty(sos) == IF sos # <<>> THEN sos[1] ELSE <<>>

NoSoMsg == "No SO numbers found"
NoItemsMsg == "No line items extracted"

----------------------------------------------------------------------------
(* States and actions *)

Idle == <<>>

ParserInit ==
    /\ pc = "start"
    /\ so_numbers = <<>>
    /\ customer_raw = <<>>
    /\ parse_errors = <<>>
    /\ items = <<>>
    /\ delivery_date = <<>>
    /\ location_code = <<>>
    /\ lines = <<>>
    /\ i = 1
    /\ current_so = <<>>
    /\ items_a = <<>>
    /\ items_b = <<>>

RepairIdle == raw = Idle /\ arg = Idle /\ cleaned = Idle /\ calls = 0

CreatorIdle ==
    /\ cpc = "idle"
    /\ catalog = {}
    /\ customers = {}
    /\ auto_submit = FALSE
    /\ so_groups = <<>>
    /\ g = 1
    /\ sales_orders = <<>>
    /\ production_plans = {}
    /\ thrown = <<>>
    /\ log_status = "Processing"

\* ParsedPDF() and "\n".join(page.extract_text() or "" for page in pdf.pages)
Init ==
    /\ \E pages \in Documents : full_text = Join(pages, <<NL>>)
    /\ ParserInit
    /\ RepairIdle
    /\ CreatorIdle

\* re.findall over the whole text, then the dedup loop
FindSoNumbers ==
    /\ pc = "start"
    /\ so_numbers' = Dedupe(FindAllSo(full_text), so_numbers)
    /\ pc' = "customer"
    /\ UNCHANGED <<full_text, customer_raw, parse_errors, items, delivery_date,
                   location_code, lines, i, current_so, items_a, items_b>>
    /\ UNCHANGED repairVars
    /\ UNCHANGED creatorVars

FindCustomer ==
    /\ pc = "customer"
    /\ customer_raw' = CustomerOf(SplitLines(full_text))
    /\ pc' = "check_so"
    /\ UNCHANGED <<full_text, so_numbers, parse_errors, items, delivery_date,
                   location_code, lines, i, current_so, items_a, items_b>>
    /\ UNCHANGED repairVars
    /\ UNCHANGED creatorVars

\* extraction abandoned when no order number was found: parse returns
CheckSoNumbers_StopsWithoutSo ==
    /\ pc = "check_so"
    /\ parse_errors' = IF so_numbers = <<>> THEN Append(parse_errors, NoSoMsg)
                       ELSE parse_errors
    /\ pc' = IF so_numbers = <<>> THEN "done" ELSE "parse_items"
    /\ UNCHANGED <<full_text, so_numbers, customer_raw, items, delivery_date,
                   location_code, lines, i, current_so, items_a, items_b>>
    /\ UNCHANGED repairVars
    /\ UNCHANGED creatorVars

CheckSoNumbers ==
    /\ pc = "check_so"
    /\ parse_errors' = IF so_numbers = <<>> THEN Append(parse_errors, NoSoMsg)
                       ELSE parse_errors
    /\ pc' = "parse_items"
    /\ UNCHANGED <<full_text, so_numbers, customer_raw, items, delivery_date,
                   location_code, lines, i, current_so, items_a, items_b>>
    /\ UNCHANGED repairVars
    /\ UNCHANGED creatorVars

\* _parse_items calls _parse_layout_a: its locals are set up
BeginLayoutA ==
    /\ pc = "parse_items"
    /\ items_a' = <<>>
    /\ current_so' = FirstSoOrEmpty(so_numbers)
    /\ lines' = SplitLines(full_text)
    /\ i' = 1
    /\ pc' = "layout_a"
    /\ UNCHANGED <<full_text, so_numbers, customer_raw, parse_errors, items,
                   delivery_date, location_code, items_b>>
    /\ UNCHANGED repairVars
    /\ UNCHANGED creatorVars

\* the header branch skips the line without `current_so = so_match.group(1)`
LayoutALine_NoContextUpdate ==
    /\ pc = "layout_a"
    /\ i <= Len(lines)
    /\ LET line == Strip(lines[i])
       IN  IF line = <<>> \/ HeaderSo(line) # <<>>
           THEN UNCHANGED items_a
           ELSE items_a' = items_a \o _try_parse_single_line(line, current_so)
    /\ i' = i + 1
    /\ UNCHANGED <<full_text, pc, so_numbers, customer_raw, parse_errors, items,
                   delivery_date, location_code, lines, items_b, current_so>>
    /\ UNCHANGED repairVars
    /\ UNCHANGED creatorVars

\* one iteration of the for loop of _parse_layout_a
LayoutALine ==
    /\ pc = "layout_a"
    /\ i <= Len(lines)
    /\ LET line == Strip(lines[i])
       IN  IF line = <<>>
           THEN UNCHANGED <<current_so, items_a>>
           ELSE IF HeaderSo(line) # <<>>
           THEN current_so' = HeaderSo(line) /\ UNCHANGED items_a
           ELSE /\ items_a' = items_a \o _try_parse_single_line(line, current_so)
                /\ UNCHANGED current_so
    /\ i' = i + 1
    /\ UNCHANGED <<full_text, pc, so_numbers, customer_raw, parse_errors, items,
                   delivery_date, location_code, lines, items_b>>
    /\ UNCHANGED repairVars
    /\ UNCHANGED creatorVars

\* _parse_layout_a returns; `if items: return items`
LayoutAFound ==
    /\ pc = "layout_a"
    /\ i > Len(lines)
    /\ items_a # <<>>
    /\ items' = items_a
    /\ pc' = "finish"
    /\ UNCHANGED <<full_text, so_numbers, customer_raw, parse_errors,
                   delivery_date, location_code, lines, i, current_so, items_a,
                   items_b>>
    /\ UNCHANGED repairVars
    /\ UNCHANGED creatorVars

\* `if items: return items` forgotten: Layout B always runs
BeginLayoutB_Always ==
    /\ pc = "layout_a"
    /\ i > Len(lines)
    /\ items_b' = <<>>
    /\ lines' = [k \in DOMAIN SplitLines(full_text) |->
                    Strip(SplitLines(full_text)[k])]
    /\ current_so' = FirstSoOrEmpty(so_numbers)
    /\ i' = 1
    /\ pc' = "layout_b"
    /\ UNCHANGED <<full_text, so_numbers, customer_raw, parse_errors, items,
                   delivery_date, location_code, items_a>>
    /\ UNCHANGED repairVars
    /\ UNCHANGED creatorVars

\* _parse_layout_a returned nothing: _parse_layout_b is called and its
\* locals are set up
BeginLayoutB ==
    /\ pc = "layout_a"
    /\ i > Len(lines)
    /\ items_a = <<>>
    /\ items_b' = <<>>
    /\ lines' = [k \in DOMAIN SplitLines(full_text) |->
                    Strip(SplitLines(full_text)[k])]
    /\ current_so' = FirstSoOrEmpty(so_numbers)
    /\ i' = 1
    /\ pc' = "layout_b"
    /\ UNCHANGED <<full_text, so_numbers, customer_raw, parse_errors, items,
                   delivery_date, location_code, items_a>>
    /\ UNCHANGED repairVars
    /\ UNCHANGED creatorVars

\* the rule of the Layout-A scan used: only a header line sets the context
SoContextB_HeaderOnly(line, so) ==
    IF HeaderSo(line) # <<>> THEN HeaderSo(line) ELSE so

\* the order-number context of the Layout-B scan after it has read line
SoContextB(line, so) ==
    IF SoSearch(line, 1) # 0
    THEN SubSeq(line, SoSearch(line, 1), SoEndAt(line, SoSearch(line, 1)) - 1)
    ELSE so

\* the pair the Layout-B scan builds at line k: None or one record
PairAt(ls, k, so) ==
    IF /\ LocSearch(ls[k]) # 0
       /\ ~SeqStart(ls[k])
       /\ k + 1 <= Len(ls)
       /\ SeqStart(ls[k + 1])
    THEN _try_parse_layout_b_pair(ls[k], ls[k + 1], so)
    ELSE <<>>

\* one iteration of the while loop of _parse_layout_b
LayoutBLine ==
    /\ pc = "layout_b"
    /\ i <= Len(lines)
    /\ current_so' = SoContextB(lines[i], current_so)
    /\ LET item == PairAt(lines, i, current_so')
       IN  /\ items_b' = items_b \o item
           /\ i' = IF item # <<>> THEN i + 2 ELSE i + 1
    /\ UNCHANGED <<full_text, pc, so_numbers, customer_raw, parse_errors, items,
                   delivery_date, location_code, lines, items_a>>
    /\ UNCHANGED repairVars
    /\ UNCHANGED creatorVars

\* _parse_layout_b returns and with it _parse_items
LayoutBReturn ==
    /\ pc = "layout_b"
    /\ i > Len(lines)
    /\ items' = items_b
    /\ pc' = "finish"
    /\ UNCHANGED <<full_text, so_numbers, customer_raw, parse_errors,
                   delivery_date, location_code, lines, i, current_so, items_a,
                   items_b>>
    /\ UNCHANGED repairVars
    /\ UNCHANGED creatorVars

\* the end of parse: the diagnostic and the summary fields
Finish ==
    /\ pc = "finish"
    /\ parse_errors' = IF items = <<>> THEN Append(parse_errors, NoItemsMsg)
                       ELSE parse_errors
    /\ delivery_date' = IF items # <<>> THEN items[1].delivery_date
                        ELSE delivery_date
    /\ location_code' = IF items # <<>> THEN items[1].location_code
                        ELSE location_code
    /\ pc' = "done"
    /\ UNCHANGED <<full_text, so_numbers, customer_raw, items, lines, i,
                   current_so, items_a, items_b>>
    /\ UNCHANGED repairVars
    /\ UNCHANGED creatorVars

Next ==
    \/ FindSoNumbers
    \/ FindCustomer
    \/ CheckSoNumbers
    \/ BeginLayoutA
    \/ LayoutALine
    \/ LayoutAFound
    \/ BeginLayoutB
    \/ LayoutBLine
    \/ LayoutBReturn
    \/ Finish

Spec == Init /\ [][Next]_vars

----------------------------------------------------------------------------
(* _clean_item_code on its own: applied to a raw token, then to its result *)

RepairInit ==
    /\ raw \in RawTokens
    /\ arg = Idle
    /\ cleaned = Idle
    /\ calls = 0
    /\ full_text = <<>>
    /\ ParserInit
    /\ CreatorIdle

CleanItemCode ==
    /\ calls < MaxCalls
    /\ arg' = IF calls = 0 THEN raw ELSE cleaned
    /\ cleaned' = _clean_item_code(arg')
    /\ calls' = calls + 1
    /\ UNCHANGED raw
    /\ UNCHANGED parserVars
    /\ UNCHANGED creatorVars

RepairNext == CleanItemCode

RepairSpec == RepairInit /\ [][RepairNext]_vars

----------------------------------------------------------------------------
(* so_creator.py: create_sales_orders on a parsed document, as the webhook *)
(* calls it.  Item, Customer, Sales Order and Production Plan records are  *)
(* the site's database; a document is identified by its po_no.  The dates, *)
(* the currency and the location name written into a Sales Order are read  *)
(* from the clock and the settings and do not decide whether it is         *)
(* inserted; they are left out of the documents below.                     *)

UnknownSo == <<"U", "N", "K", "N", "O", "W", "N">>

\* `item.source_so_no or (parsed_pdf.so_numbers[0] if ... else "UNKNOWN")`
GroupKey(item, sos) ==
    IF item.source_so_no # <<>> THEN item.source_so_no
    ELSE IF sos # <<>> THEN sos[1] ELSE UnknownSo

\* the dict so_groups as the list of its entries, in insertion order (the
\* order in which the keys are first seen), each with its items in order
SoGroups(its, sos) ==
    LET keys == Dedupe([k \in DOMAIN its |-> GroupKey(its[k], sos)], <<>>)
    IN  [k \in DOMAIN keys |->
            [source_so_no |-> keys[k],
             items |-> SelectSeq(its, LAMBDA it : GroupKey(it, sos) = keys[k])]]

\* the list `missing`: the codes of the items with no Item record, in order
MissingItems(its, cat) ==
    LET absent == SelectSeq(its, LAMBDA it : it.item_code \notin cat)
    IN  [k \in DOMAIN absent |-> absent[k].item_code]

\* the list so_items: one line for every item with an Item record
SoItems(its, cat) ==
    LET present == SelectSeq(its, LAMBDA it : it.item_code \in cat)
    IN  [k \in DOMAIN present |->
            [item_code |-> present[k].item_code,
             qty |-> present[k].qty,
             warehouse |-> present[k].factory]]

\* frappe.get_doc({"doctype": "Sales Order", ...}) after insert and submit
SalesOrderDoc(source_so_no, customer, so_items, submitted) ==
    [po_no |-> source_so_no, customer |-> customer, items |-> so_items,
     docstatus |-> IF submitted THEN 1 ELSE 0]

\* the ValidationError of frappe.throw: the order and the codes it names
MissingItemsError(source_so_no, missing) ==
    [so |-> source_so_no, missing |-> missing]

\* the items the webhook hands over: parsed by pdf_parser and routed
ItemCodes == {T_CLEAN, T_NOSLASH}

RoutedItem(so, code) ==
    ParsedLineItem(1, so, code, T_F, T_LOC14, FloatVal(T_Q4), <<>>)

\* the number of records of a parsed document
MaxItems == 3

\* the order-number lists of the parsed documents
SoLists == {<<T_SO1>>, <<T_SO2>>, <<T_SO1, T_SO2>>, <<T_SO2, T_SO1>>}

\* the webhook has parsed a document without diagnostics and calls
\* create_sales_orders(parsed, settings)
CreateInit ==
    /\ full_text = <<>>
    /\ pc = "done"
    /\ so_numbers \in SoLists
    /\ \E n \in 1..MaxItems :
          items \in [1..n -> {RoutedItem(so, code) :
                                 so \in Range(so_numbers), code \in ItemCodes}]
    /\ customer_raw = T_AC
    /\ parse_errors = <<>>
    /\ delivery_date = <<>>
    /\ location_code = T_LOC14
    /\ lines = <<>>
    /\ i = 1
    /\ current_so = <<>>
    /\ items_a = <<>>
    /\ items_b = <<>>
    /\ RepairIdle
    /\ cpc = "group"
    /\ catalog \in SUBSET ItemCodes
    /\ customers \in {{}, {T_AC}}
    /\ auto_submit \in BOOLEAN
    /\ so_groups = <<>>
    /\ g = 1
    /\ sales_orders = <<>>
    /\ production_plans = {}
    /\ thrown = <<>>
    /\ log_status = "Processing"

\* create_sales_orders: the grouping loop
GroupItems ==
    /\ cpc = "group"
    /\ so_groups' = SoGroups(items, so_numbers)
    /\ g' = 1
    /\ cpc' = "create"
    /\ UNCHANGED <<catalog, customers, auto_submit, sales_orders,
                   production_plans, thrown, log_status>>
    /\ UNCHANGED parserVars
    /\ UNCHANGED repairVars

\* frappe.throw forgotten: the items that exist are inserted as an order
CreateSingleSo_PartialCommit ==
    /\ cpc = "create"
    /\ g <= Len(so_groups)
    /\ customers' = customers \cup {customer_raw}
    /\ sales_orders' =
          Append(sales_orders,
                 SalesOrderDoc(so_groups[g].source_so_no, customer_raw,
                               SoItems(so_groups[g].items, catalog),
                               auto_submit))
    /\ \E planned \in BOOLEAN :
          production_plans' =
              IF planned
              THEN production_plans \cup {so_groups[g].source_so_no}
              ELSE production_plans
    /\ g' = g + 1
    /\ UNCHANGED <<thrown, cpc, catalog, auto_submit, so_groups, log_status>>
    /\ UNCHANGED parserVars
    /\ UNCHANGED repairVars

\* one iteration of the creation loop: _create_single_so on the next group.
\* The customer is found or created and committed first; with a missing item
\* the call throws; otherwise the order is inserted, submitted if the
\* settings say so, committed, and a Production Plan is inserted for it
\* unless it has no stock item or the planner fails (the failure is caught).
CreateSingleSo ==
    /\ cpc = "create"
    /\ g <= Len(so_groups)
    /\ customers' = customers \cup {customer_raw}
    /\ LET source_so_no == so_groups[g].source_so_no
           missing == MissingItems(so_groups[g].items, catalog)
           so_items == SoItems(so_groups[g].items, catalog)
       IN  IF missing # <<>>
           THEN /\ thrown' = <<MissingItemsError(source_so_no, missing)>>
                /\ cpc' = "thrown"
                /\ UNCHANGED <<sales_orders, production_plans, g>>
           ELSE /\ sales_orders' =
                      Append(sales_orders,
                             SalesOrderDoc(source_so_no, customer_raw,
                                           so_items, auto_submit))
                /\ \E planned \in BOOLEAN :
                      production_plans' =
                          IF planned
                          THEN production_plans \cup {source_so_no}
                          ELSE production_plans
                /\ g' = g + 1
                /\ UNCHANGED <<thrown, cpc>>
    /\ UNCHANGED <<catalog, auto_submit, so_groups, log_status>>
    /\ UNCHANGED parserVars
    /\ UNCHANGED repairVars

\* the loop is over: `return created_sos`
CreateReturn ==
    /\ cpc = "create"
    /\ g > Len(so_groups)
    /\ cpc' = "returned"
    /\ UNCHANGED <<catalog, customers, auto_submit, so_groups, g,
                   sales_orders, production_plans, thrown, log_status>>
    /\ UNCHANGED parserVars
    /\ UNCHANGED repairVars

\* receive_wati_webhook after the call: the ValidationError is caught and
\* the log is set to Error, or the log is set to Success
WebhookReply ==
    /\ cpc \in {"returned", "thrown"}
    /\ log_status' = IF cpc = "thrown" THEN "Error" ELSE "Success"
    /\ cpc' = "replied"
    /\ UNCHANGED <<catalog, customers, auto_submit, so_groups, g,
                   sales_orders, production_plans, thrown>>
    /\ UNCHANGED parserVars
    /\ UNCHANGED repairVars

CreateNext ==
    \/ GroupItems
    \/ CreateSingleSo
    \/ CreateReturn
    \/ WebhookReply

CreateSpec == CreateInit /\ [][CreateNext]_vars

----------------------------------------------------------------------------
(* Properties of _clean_item_code, checked under RepairSpec *)

HasSlash(tok) == Find(tok, "/") # 0

EndsWith(s, t) == Len(t) <= Len(s) /\ SubSeq(s, Len(s) - Len(t) + 1, Len(s)) = t

EndsInKnownSuffix(tok) ==
    \E k \in DOMAIN SuffixLiterals : EndsWith(tok, SuffixLiterals[k])

\* the token up to and including its first slash
ThroughSlash(tok) == SubSeq(tok, 1, Find(tok, "/"))

\* the text after the first slash, in upper case
UpperRemainder(tok) == StrUpper(Drop(tok, Find(tok, "/") + 1))

\* some known suffix is recognised in the remainder: as its prefix, as a
\* rearrangement of its first characters, or (two characters or more) as a
\* subsequence of it
SuffixRecognised(rest) ==
    \E k \in DOMAIN SuffixLiterals :
        LET sfx == SuffixLiterals[k]
        IN  \/ StartsWith(rest, sfx)
            \/ Len(rest) >= Len(sfx) /\ SameSorted(SubSeq(rest, 1, Len(sfx)), sfx)
            \/ Len(sfx) >= 2 /\ FoundAll(sfx, 1, rest)

\* C1: suffix repair is idempotent: applying _clean_item_code to its own
\* result returns that result unchanged, whatever strategy produced it.
C1_RepairIdempotent == calls >= 2 => cleaned = arg

\* C1 witness: repair changed a slash-delimited token and was applied again
C1_Witness == calls = 2 /\ HasSlash(raw) /\ arg # raw /\ cleaned = arg

\* C2 as claimed: a token with a slash is repaired to a code ending in a known
\* unit suffix; a token without a slash is returned unchanged.
C2_AlwaysKnownSuffix ==
    calls >= 1 =>
        IF HasSlash(arg) THEN EndsInKnownSuffix(cleaned) ELSE cleaned = arg

\* C2 amended: a token without a slash is returned unchanged; with a slash,
\* if a known suffix is recognised after the first slash the result is the
\* token through that slash followed by a known suffix; otherwise the result
\* is the token through the slash followed by the leading 1..5 characters
\* A-Z0-9 of the upper-cased remainder, or the raw token when it has none.
C2_SuffixOrFallback ==
    calls >= 1 =>
        IF ~HasSlash(arg) THEN cleaned = arg
        ELSE IF SuffixRecognised(UpperRemainder(arg))
        THEN \E k \in DOMAIN SuffixLiterals :
                 cleaned = ThroughSlash(arg) \o SuffixLiterals[k]
        ELSE \/ cleaned = arg
             \/ \E n \in 1..MaxFallbackLen :
                   /\ n <= Len(UpperRemainder(arg))
                   /\ cleaned = ThroughSlash(arg) \o SubSeq(UpperRemainder(arg), 1, n)
                   /\ \A k \in 1..n :
                         UpperRemainder(arg)[k] \in UpperSet \cup DigitSet

\* C2 witness: the fallback cut a slash-delimited token to a code that ends
\* in no known suffix
C2_Witness ==
    /\ calls = 1
    /\ HasSlash(arg)
    /\ cleaned # arg
    /\ ~EndsInKnownSuffix(cleaned)

----------------------------------------------------------------------------
(* Properties of parse, checked under Spec *)

Last(list) == list[Len(list)]

\* the document's physical lines
DocLines == SplitLines(full_text)

\* the step is an iteration of the Layout-A scan that emits a record
EmitsA == pc = "layout_a" /\ items_a' # items_a

\* the step is an iteration of the Layout-B scan that emits a record
EmitsB == pc = "layout_b" /\ items_b' # items_b

\* every record of the result and of the two scans
AllRecords == Range(items) \cup Range(items_a) \cup Range(items_b)

\* tok is an order-number token: SO- and one digit or more
IsSoToken(tok) ==
    /\ Len(tok) > Len(SoPrefix)
    /\ SubSeq(tok, 1, Len(SoPrefix)) = SoPrefix
    /\ \A k \in (Len(SoPrefix) + 1)..Len(tok) : IsDigit(tok[k])

\* tok is a date token: D{1,2}/D{1,2}/D{2,4}
IsDateToken(tok) ==
    \E a \in 1..2, b \in 1..2, c \in 2..4 :
        /\ Len(tok) = a + b + c + 2
        /\ \A k \in DOMAIN tok :
              IF k \in {a + 1, a + b + 2} THEN tok[k] = "/" ELSE IsDigit(tok[k])

\* tok is a destination code: AVINA and two or three digits
IsLocToken(tok) ==
    /\ Len(tok) - Len(LocPrefix) \in {2, 3}
    /\ SubSeq(tok, 1, Len(LocPrefix)) = LocPrefix
    /\ \A k \in (Len(LocPrefix) + 1)..Len(tok) : IsDigit(tok[k])

\* the characters p..e-1 of line stand as a whole token: no word character
\* touches them on either side
Delimited(line, p, e) ==
    /\ p = 1 \/ ~IsWord(line[p - 1])
    /\ e > Len(line) \/ ~IsWord(line[e])

\* where the date tokens of line are: <<first position, position after>>
DateOccurrences(line) ==
    {o \in (1..Len(line)) \X (1..(Len(line) + 1)) :
        /\ o[2] - o[1] \in 6..10
        /\ IsDateToken(SubSeq(line, o[1], o[2] - 1))
        /\ Delimited(line, o[1], o[2])}

\* where the destination codes of line are
LocOccurrences(line) ==
    {o \in (1..Len(line)) \X (1..(Len(line) + 1)) :
        /\ o[2] - o[1] \in 7..8
        /\ IsLocToken(SubSeq(line, o[1], o[2] - 1))
        /\ Delimited(line, o[1], o[2])}

\* the occurrence that starts first
FirstOf(occ) == CHOOSE o \in occ : \A q \in occ : o[1] <= q[1]

HasDateToken(line) == DateOccurrences(line) # {}

\* the first date token of line
FirstDateToken(line) ==
    LET o == FirstOf(DateOccurrences(line)) IN SubSeq(line, o[1], o[2] - 1)

\* a whitespace-separated token of text is a date token
HasDateWord(text) == \E k \in DOMAIN Split(text) : IsDateToken(Split(text)[k])

\* C3 as claimed: every record Layout A emits comes from a line with a date
\* token, so none has an empty delivery_date.
C3_DateRequired == \A k \in DOMAIN items_a : items_a[k].delivery_date # <<>>

\* C3 amended: Layout A does not reject a line for lacking a date token: the
\* record is emitted with an empty delivery_date; the delivery_date of an
\* emitted record is the converted first date token of its line when the line
\* has one, and empty exactly when it has none.
C3_DateOptional ==
    [][EmitsA =>
         LET line == Strip(lines[i])
             rec == Last(items_a')
         IN  /\ Len(items_a') = Len(items_a) + 1
             /\ rec.delivery_date = <<>> <=> ~HasDateToken(line)
             /\ HasDateToken(line) =>
                   rec.delivery_date = _parse_date(FirstDateToken(line))]_vars

\* C3 witness: Layout A has emitted a record with no delivery date
C3_Witness ==
    /\ pc = "layout_a"
    /\ items_a # <<>>
    /\ Last(items_a).delivery_date = <<>>
    /\ ~HasDateToken(lines[i - 1])

\* C4 as claimed: every returned record has a non-empty source_so_no.
C4_SourceNeverEmpty ==
    pc = "done" => \A k \in DOMAIN items : items[k].source_so_no # <<>>

\* C4 amended: every returned record, of either layout, has a non-empty
\* source_so_no when the document holds an order-number token (so_numbers is
\* not empty), and an empty one when it holds none.
C4_SourceEmptyIffNoSo ==
    pc = "done" =>
        \A k \in DOMAIN items :
            items[k].source_so_no = <<>> <=> so_numbers = <<>>

\* C4 witness: a Layout-B record returned with an order context
C4_Witness ==
    /\ pc = "done"
    /\ items # <<>>
    /\ items = items_b
    /\ items[1].source_so_no # <<>>

\* C5: no record, of either layout, has quantity 0: a candidate whose
\* quantity resolves to 0 is discarded.
C5_QtyNonZero == \A rec \in AllRecords : rec.qty.mant # 0

\* a Layout-A candidate line whose quantity resolves to 0
ZeroQtyCandidate(line) ==
    /\ SeqStart(line)
    /\ Len(Split(line)) >= MinPartsA
    /\ \E k \in DOMAIN Split(line) :
          /\ IsLocToken(Split(line)[k])
          /\ FirstFloat(SubSeq(Split(line), k + 1, Len(Split(line)))).mant = 0

\* C5 witness: the Layout-A scan has passed a zero-quantity candidate, and
\* emitted only the other line
C5_Witness ==
    /\ pc = "done"
    /\ Len(items) = 1
    /\ Len(DocLines) = 2
    /\ \E k \in DOMAIN DocLines : ZeroQtyCandidate(DocLines[k])

\* C6: every record has a strictly positive quantity; a negative first
\* numeric token after the destination code yields no record.
C6_QtyPositive == \A rec \in AllRecords : rec.qty.mant > 0

\* C7: Layout B starts only when Layout A has scanned every line of the
\* document and built no record; when Layout A built a record, the returned
\* items are the Layout-A records and Layout B has built nothing.
C7_LayoutBOnlyAsFallback ==
    [][/\ (pc # "layout_b" /\ pc' = "layout_b") =>
             /\ pc = "layout_a"
             /\ i = Len(DocLines) + 1
             /\ items_a = <<>>
       /\ (pc' = "finish" /\ items_a # <<>>) =>
             items' = items_a /\ items_b' = <<>>
       /\ pc' = "layout_b" => items_a' = <<>>]_vars

\* C7 witness: Layout A returned a record from a document that also holds a
\* two-line pair Layout B would have built a record from
C7_Witness ==
    /\ pc = "done"
    /\ items # <<>>
    /\ items = items_a
    /\ \E k \in DOMAIN DocLines :
          PairAt([n \in DOMAIN DocLines |-> Strip(DocLines[n])], k, <<>>) # <<>>

\* the lines of the document that hold an order-number token
SoLines == {k \in DOMAIN DocLines : SoSearch(DocLines[k], 1) # 0}

\* those of them with text after the first order-number token
NamedSoLines == {k \in SoLines : AfterSo(DocLines[k]) # <<>>}

\* C8 as claimed: customer_raw is the trimmed text after the order number on
\* the line of the first order-number occurrence, empty when there is none.
C8_FromFirstSoLine ==
    pc \notin {"start", "customer"} =>
        customer_raw = IF SoLines = {} THEN <<>>
                       ELSE AfterSo(DocLines[Min(SoLines)])

\* C8 amended: customer_raw is the trimmed text after the first order-number
\* token of the first line that holds an order-number token with text after
\* it (which may be a later line than the first order-number occurrence), and
\* is empty when no line does.
C8_FromFirstNamedSoLine ==
    pc \notin {"start", "customer"} =>
        customer_raw = IF NamedSoLines = {} THEN <<>>
                       ELSE AfterSo(DocLines[Min(NamedSoLines)])

\* C8 witness: the name was taken from a later order-number line
C8_Witness ==
    /\ pc = "done"
    /\ customer_raw # <<>>
    /\ SoLines # {}
    /\ Min(SoLines) \notin NamedSoLines

\* line is an order-header line: an order-number token, then more tokens
IsHeaderLine(line) == Len(Split(line)) >= 2 /\ IsSoToken(Split(line)[1])

\* the header lines before line n
HeadersBefore(n) == {k \in 1..(n - 1) : IsHeaderLine(DocLines[k])}

\* C9: a record of the Layout-A scan carries the order number of the nearest
\* preceding header line, or the first entry of so_numbers (empty if there is
\* none) when no header precedes; a header line yields no record.
C9_NearestHeaderContext ==
    [][EmitsA =>
         /\ ~IsHeaderLine(DocLines[i])
         /\ Last(items_a').source_so_no =
               IF HeadersBefore(i) # {}
               THEN Split(DocLines[Max(HeadersBefore(i))])[1]
               ELSE IF so_numbers # <<>> THEN so_numbers[1] ELSE <<>>]_vars

\* C9 witness: a record emitted under a header that is not the first order
\* number of the document
C9_Witness ==
    /\ pc = "layout_a"
    /\ items_a # <<>>
    /\ so_numbers # <<>>
    /\ Last(items_a).source_so_no # so_numbers[1]

\* C10 as claimed: no returned record has a description holding a date token.
C10_NoDateInDescription ==
    pc = "done" =>
        \A k \in DOMAIN items : ~HasDateWord(items[k].description)

\* the text of line before its first destination code
BeforeLoc(line) == SubSeq(line, 1, FirstOf(LocOccurrences(line))[1] - 1)

\* C10 amended: no Layout-A record has a description with a
\* whitespace-separated token that is a date token (such tokens between item
\* code and destination code are removed); a Layout-B record's description
\* is the whole trimmed text before the first destination code of its
\* description line, date tokens kept.
C10_DateRemovedInLayoutAOnly ==
    [][/\ EmitsA => ~HasDateWord(Last(items_a').description)
       /\ EmitsB => Last(items_b').description = Strip(BeforeLoc(lines[i]))]_vars

\* C10 witness: Layout A emitted a record from a line with a date token
\* before the destination code
C10_Witness ==
    /\ pc = "layout_a"
    /\ items_a # <<>>
    /\ HasDateWord(BeforeLoc(lines[i - 1]))

\* the diagnostics a result with these order numbers and records must carry
ExpectedErrors(sos, recs) ==
    (IF sos = <<>> THEN <<NoSoMsg>> ELSE <<>>)
        \o (IF recs = <<>> THEN <<NoItemsMsg>> ELSE <<>>)

\* the document's lines as the Layout-B scan reads them
StrippedLines == [k \in DOMAIN DocLines |-> Strip(DocLines[k])]

\* some line of the document, or some pair of adjacent lines, is one an
\* extractor builds a record from when the order context is empty
Extractable ==
    \/ \E k \in DOMAIN DocLines :
          _try_parse_single_line(Strip(DocLines[k]), <<>>) # <<>>
    \/ \E k \in DOMAIN DocLines : PairAt(StrippedLines, k, <<>>) # <<>>

\* the positions of parse in the order the call passes them
PcOrder == <<"start", "customer", "check_so", "parse_items", "layout_a",
             "layout_b", "finish", "done">>
Rank(p) == CHOOSE k \in DOMAIN PcOrder : PcOrder[k] = p

\* the step moves parse forward: to a later position, or inside a scan to a
\* later line, never past the end of the lines
Advances ==
    \/ Rank(pc') > Rank(pc)
    \/ /\ pc' = pc
       /\ pc \in {"layout_a", "layout_b"}
       /\ i' > i
       /\ i' <= Len(lines) + 1

\* C11: on every document text each step of parse moves it forward to its
\* return (no step repeats or leaves the text), and the returned diagnostics
\* are exactly determined by the result: "No SO numbers found" iff
\* so_numbers is empty, "No line items extracted" iff items is empty,
\* nothing else; and with so_numbers empty the extraction has still run:
\* items is empty only if no line or pair of the document yields a record.
C11_DiagnosticsExact ==
    [][/\ Advances
       /\ pc' = "done" =>
             /\ pc = "finish"
             /\ parse_errors' = ExpectedErrors(so_numbers', items')
             /\ so_numbers' = <<>> => (items' = <<>> <=> ~Extractable)]_vars

\* C11 witness: a document with no order number returned with records and
\* the one diagnostic
C11_Witness ==
    /\ pc = "done"
    /\ so_numbers = <<>>
    /\ items # <<>>
    /\ parse_errors = <<NoSoMsg>>

\* where the whole-token order numbers of text start: SO- and digits, not
\* part of a longer alphanumeric run
SoStarts(text) ==
    {p \in 1..Len(text) :
        /\ text[p] = "S"
        /\ \E e \in (p + 1)..(Len(text) + 1) :
              /\ IsSoToken(SubSeq(text, p, e - 1))
              /\ Delimited(text, p, e)}

\* the whole-token order number that starts at p
SoTokenAt(text, p) ==
    LET e == CHOOSE e \in (p + 1)..(Len(text) + 1) :
                 /\ IsSoToken(SubSeq(text, p, e - 1))
                 /\ Delimited(text, p, e)
    IN  SubSeq(text, p, e - 1)

\* where tok first occurs in text as a whole-token order number
FirstSoStart(text, tok) == Min({p \in SoStarts(text) : SoTokenAt(text, p) = tok})

\* C13: so_numbers, once collected, holds each whole-token order number of
\* the text exactly once (every one of them, nothing else, no duplicates),
\* ordered by first occurrence in the text, and no later step of parse
\* changes it.
C13_SoNumbersFirstSeen ==
    [][IF pc = "start"
       THEN /\ Range(so_numbers')
                  = {SoTokenAt(full_text, p) : p \in SoStarts(full_text)}
            /\ \A j, k \in DOMAIN so_numbers' :
                  j < k => FirstSoStart(full_text, so_numbers'[j])
                               < FirstSoStart(full_text, so_numbers'[k])
       ELSE so_numbers' = so_numbers]_vars

\* C13 witness: the text repeats an order number and holds SO- and digits
\* inside a longer alphanumeric run; the order number was collected once
C13_Witness ==
    /\ pc = "done"
    /\ Len(so_numbers) = 1
    /\ Cardinality(SoStarts(full_text)) > Len(so_numbers)
    /\ \E p \in DOMAIN full_text :
          /\ HasAt(full_text, p, SoPrefix)
          /\ p \notin SoStarts(full_text)

\* the step is an iteration of the Layout-B scan
StepsB == pc = "layout_b" /\ pc' = "layout_b"

\* the context the Layout-A rule gives after line n: the order number of the
\* nearest header line up to n, or the initial value
HeaderContext(n) ==
    IF HeadersBefore(n + 1) # {}
    THEN Split(DocLines[Max(HeadersBefore(n + 1))])[1]
    ELSE IF so_numbers # <<>> THEN so_numbers[1] ELSE <<>>

\* C14 as claimed: the Layout-B scan carries at every line the context the
\* Layout-A rule gives: only a header line changes it.
C14_SameContextRule == [][StepsB => current_so' = HeaderContext(i)]_vars

\* C14 amended: the Layout-B scan starts from the same initial context as
\* Layout A, and on each line it visits sets the context to the first
\* whole-token order number occurring anywhere in the line (on a header
\* line that is the header's order number, as in Layout A; but a token in
\* the middle of a line or alone on a line changes the context too) and
\* leaves it unchanged on a line without one; a record built at the line
\* carries the context so updated.
C14_AnyOrderNumberSetsContext ==
    [][/\ pc' = "layout_b" /\ pc # "layout_b" =>
             current_so' = IF so_numbers # <<>> THEN so_numbers[1] ELSE <<>>
       /\ StepsB =>
             /\ current_so' =
                   IF SoStarts(lines[i]) # {}
                   THEN SoTokenAt(lines[i], Min(SoStarts(lines[i])))
                   ELSE current_so
             /\ IsHeaderLine(lines[i]) => current_so' = Split(lines[i])[1]
             /\ EmitsB => Last(items_b').source_so_no = current_so']_vars

\* C14 witness: Layout B returned a record under an order number that no
\* header line of the document carries and that is not the initial context
C14_Witness ==
    /\ pc = "done"
    /\ items # <<>>
    /\ items = items_b
    /\ so_numbers # <<>>
    /\ items[1].source_so_no # so_numbers[1]
    /\ \A k \in DOMAIN DocLines :
          IsHeaderLine(DocLines[k]) =>
              Split(DocLines[k])[1] # items[1].source_so_no

----------------------------------------------------------------------------
(* Properties of create_sales_orders, checked under CreateSpec *)

\* the records of the parsed document with this source_so_no, in order
ItemsOfOrder(so) == SelectSeq(items, LAMBDA it : it.source_so_no = so)

\* their item codes, those with a catalog entry and those without
CodesOf(its) == [k \in DOMAIN its |-> its[k].item_code]
AbsentCodesOf(its) == SelectSeq(CodesOf(its), LAMBDA c : c \notin catalog)

\* the Sales Orders inserted for this source_so_no
OrdersFor(so) == {k \in DOMAIN sales_orders : sales_orders[k].po_no = so}

\* the creation call is over: returned, or failed
CallOver == cpc \in {"returned", "thrown", "replied"}

\* C12: items are grouped by source_so_no and a group is committed only as
\* a whole and only if every item_code of it is in the item catalog: every
\* inserted Sales Order carries all the items of its group, all of them in
\* the catalog, and there is at most one per group; a group with a missing
\* item code gets no Sales Order, and the creation call then fails with an
\* error naming exactly the missing codes of a group (the webhook log ends
\* in Error); the call fails only so.
C12_GroupRejectedWhole ==
    /\ \A k \in DOMAIN sales_orders :
          LET group == ItemsOfOrder(sales_orders[k].po_no)
          IN  /\ group # <<>>
              /\ AbsentCodesOf(group) = <<>>
              /\ CodesOf(sales_orders[k].items) = CodesOf(group)
              /\ OrdersFor(sales_orders[k].po_no) = {k}
    /\ \A k \in DOMAIN items :
          items[k].item_code \notin catalog =>
              OrdersFor(items[k].source_so_no) = {}
    /\ thrown # <<>> =>
          /\ cpc \in {"thrown", "replied"}
          /\ thrown[1].missing # <<>>
          /\ thrown[1].missing = AbsentCodesOf(ItemsOfOrder(thrown[1].so))
    /\ CallOver =>
          (thrown # <<>> <=> \E k \in DOMAIN items :
                                 items[k].item_code \notin catalog)
    /\ cpc = "replied" =>
          log_status = IF thrown # <<>> THEN "Error" ELSE "Success"

\* C12 witness: an earlier group was committed, then a group holding both
\* an existing and a missing item code was rejected and the call failed
C12_Witness ==
    /\ cpc = "replied"
    /\ thrown # <<>>
    /\ sales_orders # <<>>
    /\ \E k \in DOMAIN items :
          /\ items[k].source_so_no = thrown[1].so
          /\ items[k].item_code \in catalog

====
